---- MODULE Spec2Model ----
(***************************************************************************)
(* A model of casbin/mongodb-adapter (the mongo-driver version of          *)
(* adapter.go): the rule codec (savePolicyLine / loadPolicyLine), the      *)
(* document store operations the adapter issues (insert, delete, replace,  *)
(* drop, unique index) and the adapter's public operations.                *)
(*                                                                         *)
(* Strings are sequences of one-character strings, so that the text line   *)
(* built by loadPolicyLine (strings.Join) and parsed by                    *)
(* persist.LoadPolicyLine (a comma separated record) is computed, not      *)
(* assumed.  The empty Go string "" is the empty sequence.                 *)
(***************************************************************************)
EXTENDS Bags, FiniteSets, Integers, Sequences, TLC

VARIABLES
    coll,      \* the target collection: a bag of documents
    hasIndex,  \* the unique index over (ptype, v0..v5) exists on the collection
    ctor,      \* the constructor that built the adapter in use, and its config flag
    filtered,  \* adapter.filtered
    lastLoad,  \* filter kind of the adapter's most recent load: "none", "nil", "filter"
    op,        \* the operation that last ran and has not returned yet, or "idle"
    args,      \* its arguments
    err,       \* the error it returns (Nil for success)
    ret,       \* the value it returns besides the error
    pre,       \* collection, index and flag as they were when it was called
    logged,    \* the lines it has written to the log
    calls,     \* adapter instances sharing the collection: each one's call in progress
    connected  \* the mongo clients that are connected

vars == <<coll, hasIndex, ctor, filtered, lastLoad, op, args, err, ret, pre, logged, calls,
          connected>>

-----------------------------------------------------------------------------
(* Bounds of the model *)

MaxColl == 2     \* documents the collection may hold
MaxBatch == 2    \* rules in one batch call / rules in one saved policy set

\* the executions of the transaction callback after the first
MaxRetry == 1

(* Program constants *)

MaxFields == 6   \* value fields V0..V5 of a CasbinRule

-----------------------------------------------------------------------------
(* Strings *)

EmptyStr == <<>>
p == <<"p">>
p2 == <<"p", "2">>
g == <<"g">>
e == <<"e">>
alice == <<"a">>
bob == <<"b">>
alice_bob == <<"a", ",", "b">>   \* one value that contains a comma

Nil == "nil"
ErrFiltered == "cannot save a filtered policy"
ErrTooManyArgs == "too many arguments"
ErrURL == "error parsing uri"
ErrIndex == "index build failed: duplicate key"
ErrDuplicateKey == "E11000 duplicate key error"
ErrEmptySlice == "must provide at least one element in input slice"
ErrStore == "store error"
ErrConnect == "connect error"
ErrTxnUnsupported == "CommandError code 20: transaction numbers are only allowed on a replica set member or mongos"
ErrPolicyLine == "policy line error"
ErrClientDisconnected == "client is disconnected"
Panic == "panic: index out of range"
PanicConversion == "panic: interface conversion: not time.Duration"

\* the dynamic types a timeout argument (an interface{}) can have
Duration == "time.Duration"
TimeoutArgs == {Duration, "int"}

NoRet == <<>>
NoArgs == <<>>
NoPre == <<>>

NoLog == <<>>

Warning == "[WARNING]: transaction operation is not supported"

-----------------------------------------------------------------------------
(* CasbinRule documents *)

indexes == <<"ptype", "v0", "v1", "v2", "v3", "v4", "v5">>

Keys == {indexes[i] : i \in 1..Len(indexes)}

VKey(i) == indexes[i + 2]          \* the bson key of field Vi, i in 0..5

VIndex(k) == CHOOSE i \in 0..(MaxFields - 1) : VKey(i) = k

savePolicyLine(ptype, rule) ==
    [k \in Keys |->
        IF k = "ptype" THEN ptype
        ELSE IF Len(rule) > VIndex(k) THEN rule[VIndex(k) + 1]
        ELSE EmptyStr]

RECURSIVE Join(_, _)
Join(elems, sep) ==
    IF elems = <<>> THEN <<>>
    ELSE IF Len(elems) = 1 THEN elems[1]
    ELSE elems[1] \o sep \o Join(Tail(elems), sep)

RECURSIVE SplitComma(_, _)
SplitComma(text, field) ==
    IF text = <<>> THEN <<field>>
    ELSE IF Head(text) = "," THEN <<field>> \o SplitComma(Tail(text), <<>>)
    ELSE SplitComma(Tail(text), Append(field, Head(text)))

RECURSIVE TrimLeadingSpace(_)
TrimLeadingSpace(s) ==
    IF s # <<>> /\ Head(s) = " " THEN TrimLeadingSpace(Tail(s)) ELSE s

\* encoding/csv Reader.Read with Comma = ',' and TrimLeadingSpace = true,
\* on one line without quotes
csvRead(text) ==
    LET raw == SplitComma(text, <<>>)
    IN [i \in 1..Len(raw) |-> TrimLeadingSpace(raw[i])]

\* persist.LoadPolicyLine: a policy set is a function from rule type to the
\* list of its rules; the section of a rule type is its first character.
persistLoadPolicyLine(lineText, model) ==
    IF lineText = <<>> \/ Head(lineText) = "#"
    THEN [model |-> model, err |-> Nil]
    ELSE LET tokens == csvRead(lineText)
             key == tokens[1]
         IN IF key \notin DOMAIN model
            THEN [model |-> model, err |-> ErrPolicyLine]
            ELSE [model |-> [model EXCEPT ![key] = Append(@, Tail(tokens))],
                  err |-> Nil]

lineTextOf(line) ==
    LET pp == [i \in 1..(MaxFields + 1) |-> line[indexes[i]]]
    IN IF line["v5"] # EmptyStr THEN Join(pp, <<",", " ">>)
       ELSE IF line["v4"] # EmptyStr THEN Join(SubSeq(pp, 1, 6), <<",", " ">>)
       ELSE IF line["v3"] # EmptyStr THEN Join(SubSeq(pp, 1, 5), <<",", " ">>)
       ELSE IF line["v2"] # EmptyStr THEN Join(SubSeq(pp, 1, 4), <<",", " ">>)
       ELSE IF line["v1"] # EmptyStr THEN Join(SubSeq(pp, 1, 3), <<",", " ">>)
       ELSE IF line["v0"] # EmptyStr THEN Join(SubSeq(pp, 1, 2), <<",", " ">>)
       ELSE <<>>

loadPolicyLine(line, model) == persistLoadPolicyLine(lineTextOf(line), model)

\* CasbinRule.toStringPolicy
toStringPolicy(c) ==
    LET F(i) == c[indexes[i]]
        RECURSIVE Build(_)
        Build(i) ==
            IF i > MaxFields + 1 THEN <<>>
            ELSE (IF F(i) # EmptyStr THEN <<F(i)>> ELSE <<>>) \o Build(i + 1)
    IN Build(1)

SectionOf(ptype) == SubSeq(ptype, 1, 1)

-----------------------------------------------------------------------------
(* The document store, as the mongo driver presents it *)

\* a filter document matches a stored document when every key it names is equal
Matches(doc, selector) == \A k \in DOMAIN selector : doc[k] = selector[k]

One(doc) == SetToBag({doc})

\* Collection.Find: the matching documents
Find(c, selector) ==
    LET hit == {d \in BagToSet(c) : Matches(d, selector)}
    IN [d \in hit |-> c[d]]

\* the orders in which a cursor may hand out the documents of a bag
RECURSIVE Orders(_)
Orders(bag) ==
    IF BagToSet(bag) = {} THEN {<<>>}
    ELSE UNION {{<<d>> \o s : s \in Orders(bag (-) One(d))} : d \in BagToSet(bag)}

\* Collection.DeleteMany
DeleteMany(c, selector) ==
    LET keep == {d \in BagToSet(c) : ~Matches(d, selector)}
    IN [d \in keep |-> c[d]]

\* a DeleteOne whose filter leaves out the empty fields of the rule
DeleteOneNonEmpty(c, line) ==
    LET hit == {d \in BagToSet(c) :
                   \A k \in DOMAIN line : line[k] # EmptyStr => d[k] = line[k]}
    IN IF hit = {} THEN c ELSE c (-) One(CHOOSE d \in hit : TRUE)

\* Collection.DeleteOne with a whole CasbinRule as the filter: all seven
\* fields are compared, one copy goes; no match is not an error
DeleteOne(c, line) == IF BagIn(line, c) THEN c (-) One(line) ELSE c

\* Collection.InsertOne under the unique index (when it exists)
InsertOne(c, idx, line) ==
    IF idx /\ BagIn(line, c)
    THEN [coll |-> c, err |-> ErrDuplicateKey]
    ELSE [coll |-> c (+) One(line), err |-> Nil]

\* ordered insertion of a non-empty list: stops at the first failing document
RECURSIVE InsertEach(_, _, _)
InsertEach(c, idx, lines) ==
    IF lines = <<>> THEN [coll |-> c, err |-> Nil]
    ELSE LET r == InsertOne(c, idx, Head(lines))
         IN IF r.err # Nil THEN r ELSE InsertEach(r.coll, idx, Tail(lines))

\* Collection.InsertMany: an empty list is refused by the driver
InsertMany(c, idx, lines) ==
    IF lines = <<>> THEN [coll |-> c, err |-> ErrEmptySlice]
    ELSE InsertEach(c, idx, lines)

\* Collection.ReplaceOne with a whole CasbinRule as the filter
ReplaceOne(c, idx, oldLine, newLine) ==
    IF ~BagIn(oldLine, c) THEN [coll |-> c, err |-> Nil]
    ELSE IF idx /\ newLine # oldLine /\ BagIn(newLine, c)
    THEN [coll |-> c, err |-> ErrDuplicateKey]
    ELSE [coll |-> (c (-) One(oldLine)) (+) One(newLine), err |-> Nil]

HasDuplicate(c) == \E d \in BagToSet(c) : c[d] > 1

\* Indexes().CreateOne with SetUnique(true): fails on existing duplicates,
\* succeeds when the same index is already there
CreateOne(c, idx) ==
    IF ~idx /\ HasDuplicate(c)
    THEN [hasIndex |-> idx, err |-> ErrIndex]
    ELSE [hasIndex |-> TRUE, err |-> Nil]

-----------------------------------------------------------------------------
(* The adapter's operations, as functions of the state they read            *)
(* s = [coll, hasIndex, filtered] and of their arguments.  Each returns the *)
(* state it leaves and what it returns to the caller.                       *)

Result(c, idx, f, er, rt) ==
    [coll |-> c, hasIndex |-> idx, filtered |-> f, err |-> er, ret |-> rt,
     log |-> <<>>]

Unchanged(s, er) == Result(s.coll, s.hasIndex, s.filtered, er, NoRet)

\* adapter.open: connect, resolve the collection, create the unique index.
\* fault says which of the two store calls the deployment fails, if any:
\* mongo.Connect, or Indexes().CreateOne for a reason of the deployment's
\* (no server answers); either error is returned and no index is created.
open(s, fault) ==
    IF fault.at = "connect" THEN Unchanged(s, ErrConnect)
    ELSE IF fault.at = "index" THEN Unchanged(s, ErrStore)
    ELSE LET made == CreateOne(s.coll, s.hasIndex)
         IN Result(s.coll, made.hasIndex, s.filtered, made.err, NoRet)

\* timeout lists the dynamic types of the variadic timeout arguments: a
\* single one is asserted to be a time.Duration, which panics on any other
baseNewAdapter(s, timeout, fault) ==
    IF Len(timeout) = 1 /\ timeout[1] # Duration THEN Unchanged(s, PanicConversion)
    ELSE IF Len(timeout) > 1 THEN Unchanged(s, ErrTooManyArgs)
    ELSE LET o == open(s, fault)
         IN IF o.err # Nil THEN Unchanged(s, o.err)
            ELSE Result(o.coll, o.hasIndex, FALSE, Nil, NoRet)

NewAdapter(s, urlOk, timeout, fault) ==
    IF ~urlOk THEN Unchanged(s, ErrURL) ELSE baseNewAdapter(s, timeout, fault)

NewAdapterWithClientOption(s, timeout, fault) == baseNewAdapter(s, timeout, fault)

NewAdapterWithCollectionName(s, timeout, fault) == baseNewAdapter(s, timeout, fault)

\* NewFilteredAdapter as the first version of the adapter had it: the flag
\* is left as NewAdapter set it
NewFilteredAdapterUnflagged(s, urlOk, fault) == NewAdapter(s, urlOk, <<>>, fault)

NewFilteredAdapter(s, urlOk, fault) ==
    LET a == NewAdapter(s, urlOk, <<>>, fault)
    IN IF a.err # Nil THEN a
       ELSE Result(a.coll, a.hasIndex, TRUE, Nil, NoRet)

\* config is the AdapterConfig after its defaults are filled in
NewAdapterByDB(s, config) ==
    Result(s.coll, s.hasIndex, config.IsFiltered, Nil, NoRet)

\* a drop that removes the index and leaves the documents
dropTableKeeps(s) == Result(s.coll, FALSE, s.filtered, Nil, NoRet)

dropTable(s) == Result(EmptyBag, FALSE, s.filtered, Nil, NoRet)

\* a load filter: nil, or a selector document
NilFilter == [selector |-> <<>>, isNil |-> TRUE]

Filter(selector) == [selector |-> selector, isNil |-> FALSE]

\* the documents a load with this filter iterates (nil becomes bson.D{{}})
\* a query that ignores the filter
LoadedAll(c, filter) == Find(c, <<>>)

Loaded(c, filter) == Find(c, IF filter.isNil THEN <<>> ELSE filter.selector)

RECURSIVE loadLines(_, _)
loadLines(lines, model) ==
    IF lines = <<>> THEN [model |-> model, err |-> Nil]
    ELSE LET r == loadPolicyLine(Head(lines), model)
         IN IF r.err # Nil THEN r ELSE loadLines(Tail(lines), r.model)

\* a load that raises the flag for a filter and never lowers it
LoadFilteredPolicySticky(s, model, filter, order, findFails) ==
    LET f == s.filtered \/ ~filter.isNil
    IN IF findFails THEN Result(s.coll, s.hasIndex, f, ErrStore, model)
       ELSE LET r == loadLines(order, model)
            IN Result(s.coll, s.hasIndex, f, r.err, r.model)

\* order: the documents of Loaded(s.coll, filter) in the cursor's order;
\* findFails: the query itself fails
LoadFilteredPolicy(s, model, filter, order, findFails) ==
    LET f == ~filter.isNil
    IN IF findFails THEN Result(s.coll, s.hasIndex, f, ErrStore, model)
       ELSE LET r == loadLines(order, model)
            IN Result(s.coll, s.hasIndex, f, r.err, r.model)

LoadPolicy(s, model, order, findFails) ==
    LoadFilteredPolicy(s, model, NilFilter, order, findFails)

IsFiltered(s) == s.filtered

\* the rules of the rule types in keyOrder, encoded, in iteration order
RECURSIVE linesOf(_, _)
linesOf(model, keyOrder) ==
    IF keyOrder = <<>> THEN <<>>
    ELSE [i \in 1..Len(model[Head(keyOrder)]) |->
             savePolicyLine(Head(keyOrder), model[Head(keyOrder)][i])]
         \o linesOf(model, Tail(keyOrder))

\* a save that puts the old documents and the index back when it fails
dropAndInsertRestoring(s, model, pOrder, gOrder, fault) ==
    IF fault.at = "drop" THEN Unchanged(s, ErrStore)
    ELSE LET lines == linesOf(model, pOrder) \o linesOf(model, gOrder)
             ins == IF fault.at = "insert" /\ lines # <<>>
                    THEN [coll |-> s.coll, err |-> ErrStore]
                    ELSE InsertMany(EmptyBag, FALSE, lines)
         IN Result(ins.coll, IF ins.err = Nil THEN FALSE ELSE s.hasIndex, s.filtered,
                   ins.err, NoRet)

\* pOrder, gOrder: the rule types of model["p"] and model["g"] in the order
\* the map iteration yields them; fault: which store call fails, if any.
\* dropAndInsert is SavePolicy past its guard: drop, then bulk insert.
dropAndInsert(s, model, pOrder, gOrder, fault) ==
    IF fault.at = "drop" THEN Unchanged(s, ErrStore)
    ELSE LET d == dropTable(s)
             lines == linesOf(model, pOrder) \o linesOf(model, gOrder)
             ins == IF fault.at = "insert" /\ lines # <<>>
                    THEN [coll |-> InsertEach(d.coll, d.hasIndex,
                                              SubSeq(lines, 1, fault.done)).coll,
                          err |-> ErrStore]
                    ELSE InsertMany(d.coll, d.hasIndex, lines)
         IN Result(ins.coll, d.hasIndex, s.filtered, ins.err, NoRet)

\* a save that skips the guard
SavePolicyUnguarded(s, model, pOrder, gOrder, fault) ==
    dropAndInsert(s, model, pOrder, gOrder, fault)

SavePolicy(s, model, pOrder, gOrder, fault) ==
    IF s.filtered THEN Unchanged(s, ErrFiltered)
    ELSE dropAndInsert(s, model, pOrder, gOrder, fault)

AddPolicy(s, ptype, rule) ==
    LET r == InsertOne(s.coll, s.hasIndex, savePolicyLine(ptype, rule))
    IN Result(r.coll, s.hasIndex, s.filtered, r.err, NoRet)

encodeAll(ptype, rules) == [i \in 1..Len(rules) |-> savePolicyLine(ptype, rules[i])]

\* an AddPolicies that takes back what it inserted when an item fails
AddPoliciesAtomic(s, ptype, rules, failAt) ==
    LET lines == [i \in 1..Len(rules) |-> savePolicyLine(ptype, rules[i])]
        tried == IF failAt = 0 THEN lines ELSE SubSeq(lines, 1, failAt - 1)
        r == InsertEach(s.coll, s.hasIndex, tried)
        er == IF r.err = Nil /\ failAt # 0 THEN ErrStore ELSE r.err
    IN Result(IF er = Nil THEN r.coll ELSE s.coll, s.hasIndex, s.filtered, er, NoRet)

\* a RemovePolicies that deletes the first rule of the batch only
RemovePoliciesFirst(s, ptype, rules, failAt) ==
    IF rules = <<>> \/ failAt = 1
    THEN Result(s.coll, s.hasIndex, s.filtered, IF failAt = 1 THEN ErrStore ELSE Nil, NoRet)
    ELSE Result(DeleteOne(s.coll, savePolicyLine(ptype, rules[1])), s.hasIndex, s.filtered,
                IF failAt # 0 THEN ErrStore ELSE Nil, NoRet)

\* failAt: the store call of the batch that fails (0: none does)
attempted(lines, failAt) ==
    IF failAt = 0 THEN lines ELSE SubSeq(lines, 1, failAt - 1)

AddPolicies(s, ptype, rules, failAt) ==
    LET r == InsertEach(s.coll, s.hasIndex, attempted(encodeAll(ptype, rules), failAt))
    IN Result(r.coll, s.hasIndex, s.filtered,
              IF r.err = Nil /\ failAt # 0 THEN ErrStore ELSE r.err, NoRet)

RECURSIVE DeleteEach(_, _)
DeleteEach(c, lines) ==
    IF lines = <<>> THEN c ELSE DeleteEach(DeleteOne(c, Head(lines)), Tail(lines))

RemovePolicies(s, ptype, rules, failAt) ==
    Result(DeleteEach(s.coll, attempted(encodeAll(ptype, rules), failAt)),
           s.hasIndex, s.filtered, IF failAt # 0 THEN ErrStore ELSE Nil, NoRet)

\* fails: the DeleteOne call returns an error, nothing deleted
RemovePolicy(s, ptype, rule, fails) ==
    IF fails THEN Unchanged(s, ErrStore)
    ELSE Result(DeleteOne(s.coll, savePolicyLine(ptype, rule)), s.hasIndex, s.filtered,
                Nil, NoRet)

\* a selector that tests the first supplied value for emptiness at every
\* position, as the first version of RemoveFilteredPolicy did
selectorOfFirstValue(ptype, fieldIndex, fieldValues) ==
    LET constrained == {i \in 0..(MaxFields - 1) :
                           /\ fieldIndex <= i
                           /\ i < fieldIndex + Len(fieldValues)
                           /\ fieldValues[1] # EmptyStr}
    IN [k \in {"ptype"} \cup {VKey(i) : i \in constrained} |->
           IF k = "ptype" THEN ptype ELSE fieldValues[VIndex(k) - fieldIndex + 1]]

\* the selector RemoveFilteredPolicy and UpdateFilteredPolicies build
selectorOf(ptype, fieldIndex, fieldValues) ==
    LET constrained == {i \in 0..(MaxFields - 1) :
                           /\ fieldIndex <= i
                           /\ i < fieldIndex + Len(fieldValues)
                           /\ fieldValues[i - fieldIndex + 1] # EmptyStr}
    IN [k \in {"ptype"} \cup {VKey(i) : i \in constrained} |->
           IF k = "ptype" THEN ptype ELSE fieldValues[VIndex(k) - fieldIndex + 1]]

\* fails: the DeleteMany call returns an error, nothing deleted
RemoveFilteredPolicy(s, ptype, fieldIndex, fieldValues, fails) ==
    IF fails THEN Unchanged(s, ErrStore)
    ELSE Result(DeleteMany(s.coll, selectorOf(ptype, fieldIndex, fieldValues)),
                s.hasIndex, s.filtered, Nil, NoRet)

\* an update that inserts the new rule when nothing matched the old one
UpdatePolicyUpsert(s, ptype, oldRule, newPolicy) ==
    LET oldLine == savePolicyLine(ptype, oldRule)
        newLine == savePolicyLine(ptype, newPolicy)
        r == IF BagIn(oldLine, s.coll)
             THEN ReplaceOne(s.coll, s.hasIndex, oldLine, newLine)
             ELSE InsertOne(s.coll, s.hasIndex, newLine)
    IN Result(r.coll, s.hasIndex, s.filtered, r.err, NoRet)

UpdatePolicy(s, ptype, oldRule, newPolicy) ==
    LET r == ReplaceOne(s.coll, s.hasIndex,
                        savePolicyLine(ptype, oldRule), savePolicyLine(ptype, newPolicy))
    IN Result(r.coll, s.hasIndex, s.filtered, r.err, NoRet)

\* a pairing that compares the lengths before the first replacement
ReplaceEachChecked(c, idx, oldLines, newLines, i) ==
    IF Len(newLines) < Len(oldLines) THEN [coll |-> c, err |-> Panic]
    ELSE LET RECURSIVE Go(_, _)
             Go(cc, j) ==
                 IF j > Len(oldLines) THEN [coll |-> cc, err |-> Nil]
                 ELSE LET r == ReplaceOne(cc, idx, oldLines[j], newLines[j])
                      IN IF r.err # Nil THEN r ELSE Go(r.coll, j + 1)
         IN Go(c, i)

RECURSIVE ReplaceEach(_, _, _, _, _)
ReplaceEach(c, idx, oldLines, newLines, i) ==
    IF i > Len(oldLines) THEN [coll |-> c, err |-> Nil]
    ELSE IF i > Len(newLines) THEN [coll |-> c, err |-> Panic]
    ELSE LET r == ReplaceOne(c, idx, oldLines[i], newLines[i])
         IN IF r.err # Nil THEN r ELSE ReplaceEach(r.coll, idx, oldLines, newLines, i + 1)

UpdatePolicies(s, ptype, oldRules, newRules, failAt) ==
    LET r == ReplaceEach(s.coll, s.hasIndex, attempted(encodeAll(ptype, oldRules), failAt),
                         encodeAll(ptype, newRules), 1)
    IN Result(r.coll, s.hasIndex, s.filtered,
              IF r.err # Nil \/ failAt = 0 THEN r.err
              ELSE IF failAt > Len(newRules) THEN Panic ELSE ErrStore,
              NoRet)

oldPoliciesOf(oldLines) == [i \in 1..Len(oldLines) |-> toStringPolicy(oldLines[i])]

\* what a store call of UpdateFilteredPolicies may do: at names the phase that
\* fails ("none", "session", "find", "delete", "insert"), done the inserts
\* that succeeded before a failing insert
NoFailure == [at |-> "none"]

\* the three phases with the inserts ahead of the delete-many
threePhasesInsertFirst(s, newLines, selector, order, fault) ==
    IF fault.at = "find" THEN Unchanged(s, ErrStore)
    ELSE IF fault.at = "delete" THEN Unchanged(s, ErrStore)
    ELSE LET lines == IF fault.at = "insert" THEN SubSeq(newLines, 1, fault.done)
                      ELSE newLines
             r == InsertEach(s.coll, s.hasIndex, lines)
             c == DeleteMany(r.coll, selector)
         IN IF r.err # Nil THEN Result(c, s.hasIndex, s.filtered, r.err, NoRet)
            ELSE IF fault.at = "insert"
            THEN Result(c, s.hasIndex, s.filtered, ErrStore, NoRet)
            ELSE Result(c, s.hasIndex, s.filtered, Nil, oldPoliciesOf(order))

\* read, delete-many and inserts one by one, every write taking effect at
\* once; a failure leaves what was written
threePhases(s, newLines, selector, order, fault) ==
    IF fault.at = "find" THEN Unchanged(s, ErrStore)
    ELSE IF fault.at = "delete" THEN Unchanged(s, ErrStore)
    ELSE LET lines == IF fault.at = "insert" THEN SubSeq(newLines, 1, fault.done)
                      ELSE newLines
             r == InsertEach(DeleteMany(s.coll, selector), s.hasIndex, lines)
         IN IF r.err # Nil THEN Result(r.coll, s.hasIndex, s.filtered, r.err, NoRet)
            ELSE IF fault.at = "insert"
            THEN Result(r.coll, s.hasIndex, s.filtered, ErrStore, NoRet)
            ELSE Result(r.coll, s.hasIndex, s.filtered, Nil, oldPoliciesOf(order))

\* a transaction that is not aborted when a phase fails
updateFilteredPoliciesTxnNoAbort(s, newLines, selector, order, store) ==
    IF store.attempt.at = "session" THEN Unchanged(s, ErrStore)
    ELSE IF store.attempt.at = "find" THEN Unchanged(s, ErrStore)
    ELSE IF ~store.txn THEN Unchanged(s, ErrTxnUnsupported)
    ELSE threePhases(s, newLines, selector, order, store.attempt)

\* order: the matching documents in the cursor's order; store: whether the
\* deployment supports multi-document transactions (store.txn), and the
\* failures of the transactional attempt (store.attempt) and of the
\* non-transactional run (store.fallback).
\* The read runs before the first write of the transaction; that write is
\* refused with code 20 where transactions are unsupported; a failure in a
\* transaction aborts it.
updateFilteredPoliciesTxn(s, newLines, selector, order, store) ==
    IF store.attempt.at = "session" THEN Unchanged(s, ErrStore)
    ELSE IF store.attempt.at = "find" THEN Unchanged(s, ErrStore)
    ELSE IF ~store.txn THEN Unchanged(s, ErrTxnUnsupported)
    ELSE LET r == threePhases(s, newLines, selector, order, store.attempt)
         IN IF r.err # Nil THEN Unchanged(s, r.err) ELSE r

\* a non-transactional run that puts the collection back when a phase fails
updateFilteredPoliciesUndo(s, newLines, selector, order, fault) ==
    LET r == threePhases(s, newLines, selector, order, fault)
    IN IF r.err # Nil THEN Unchanged(s, r.err) ELSE r

updateFilteredPolicies(s, newLines, selector, order, fault) ==
    threePhases(s, newLines, selector, order, fault)

\* an update that runs the non-transactional sequence after any error of
\* the transactional attempt
UpdateFilteredPoliciesAlwaysFallback(s, ptype, newPolicies, fieldIndex, fieldValues, order, store) ==
    LET selector == selectorOf(ptype, fieldIndex, fieldValues)
        newLines == encodeAll(ptype, newPolicies)
        t == updateFilteredPoliciesTxn(s, newLines, selector, order, store)
    IN IF t.err = Nil THEN t
       ELSE [updateFilteredPolicies(s, newLines, selector, order, store.fallback)
                EXCEPT !.log = <<Warning>>]

UpdateFilteredPolicies(s, ptype, newPolicies, fieldIndex, fieldValues, order, store) ==
    LET selector == selectorOf(ptype, fieldIndex, fieldValues)
        newLines == encodeAll(ptype, newPolicies)
        t == updateFilteredPoliciesTxn(s, newLines, selector, order, store)
    IN IF t.err = Nil THEN t
       ELSE IF t.err # ErrTxnUnsupported THEN Result(t.coll, t.hasIndex, t.filtered, t.err, NoRet)
       ELSE [updateFilteredPolicies(s, newLines, selector, order, store.fallback)
                EXCEPT !.log = <<Warning>>]

-----------------------------------------------------------------------------
(* Inputs *)

PTypes == {p, g}

Full == <<bob, alice, bob, alice, bob, alice>>     \* a rule that fills V0..V5

Rules == {<<>>, <<alice>>, <<alice, bob>>, <<alice_bob>>, Full}

TinyRules == {<<alice>>, <<alice_bob>>}

ModelRules == {<<alice>>, <<alice, bob>>, <<alice_bob>>}

ModelKeys == {p, p2, g, e}      \* rule types of sections "p", "g" and "e"

EmptyModel == [k \in ModelKeys |-> <<>>]

EmptyModelNoG == [k \in ModelKeys \ {g} |-> <<>>]   \* a model that defines no "g"

SeqsUpTo(S, n) == UNION {[1..k -> S] : k \in 0..n}

NoRepeat(q) == \A i, j \in 1..Len(q) : q[i] = q[j] => i = j

RECURSIVE SumLen(_, _)
SumLen(m, ks) ==
    IF ks = {} THEN 0
    ELSE LET k == CHOOSE x \in ks : TRUE IN Len(m[k]) + SumLen(m, ks \ {k})

\* the policy sets with rules from RS under the rule types KS, at most
\* MaxBatch rules in all, no rule twice under one rule type
ModelsOver(KS, RS) ==
    {m \in [ModelKeys -> SeqsUpTo(RS, MaxBatch)] :
        /\ \A k \in ModelKeys : NoRepeat(m[k]) /\ (k \notin KS => m[k] = <<>>)
        /\ SumLen(m, ModelKeys) <= MaxBatch}

Models == ModelsOver(ModelKeys, ModelRules)

TinyModels == ModelsOver({p, e}, TinyRules)

Batches == SeqsUpTo(TinyRules, MaxBatch)

FieldIndexes == 0..(MaxFields - 1)

ValueLists ==
    {<<>>, <<EmptyStr>>, <<alice>>, <<bob>>, <<EmptyStr, bob>>, <<alice, bob>>}

TinyValueLists == {<<>>, <<alice>>, <<EmptyStr, bob>>}

Filters == {NilFilter, Filter([v0 |-> alice]), Filter([v0 |-> alice_bob]), Filter(<<>>)}

LoadTargets == {EmptyModel, EmptyModelNoG}

\* the orders in which a map iteration may yield the rule types of a section
KeyOrders(sec) == Orders(SetToBag({k \in ModelKeys : SectionOf(k) = sec}))

KeyOrder(sec) == CHOOSE o \in KeyOrders(sec) : TRUE

KeyOrdersP == KeyOrders(p)

KeyOrderP == KeyOrder(p)

KeyOrderG == KeyOrder(g)

\* the store call of a batch that fails: none, or one of its items
FailAts(rules, withFaults) == IF withFaults THEN 0..Len(rules) ELSE {0}

\* the failures of one run of the three phases with n new policies
Failures(n) ==
    {NoFailure, [at |-> "find"], [at |-> "delete"]}
    \cup {[at |-> "insert", done |-> k] : k \in 0..(n - 1)}

\* the deployments UpdateFilteredPolicies may meet and the failures that
\* matter on each: with transactions the non-transactional run is never
\* reached; without, the transactional attempt fails before its first write
\* or is refused at it, and only then the non-transactional run takes place
Stores(n, withFaults) ==
    IF ~withFaults
    THEN {[attempt |-> NoFailure, txn |-> t, fallback |-> NoFailure] : t \in BOOLEAN}
    ELSE {[attempt |-> a, txn |-> TRUE, fallback |-> NoFailure] :
             a \in Failures(n) \cup {[at |-> "session"]}}
         \cup {[attempt |-> a, txn |-> FALSE, fallback |-> NoFailure] :
                  a \in {[at |-> "session"], [at |-> "find"]}}
         \cup {[attempt |-> NoFailure, txn |-> FALSE, fallback |-> f] : f \in Failures(n)}

NoFault == [at |-> "none"]

\* what the deployment does to open(): nothing, or it fails mongo.Connect,
\* or it fails Indexes().CreateOne
OpenFaults == {NoFault, [at |-> "connect"], [at |-> "index"]}

\* the timeout arguments of a constructor: none, one or two
Timeouts == SeqsUpTo(TimeoutArgs, 2)

SaveFaults(model) ==
    {NoFault, [at |-> "drop"]}
    \cup {[at |-> "insert", done |-> n] :
             n \in 0..(SumLen(model, {k \in ModelKeys : SectionOf(k) \in {p, g}}) - 1)}

-----------------------------------------------------------------------------
(* The state machine *)

S == [coll |-> coll, hasIndex |-> hasIndex, filtered |-> filtered]

\* the adapter instances of the concurrent specification
Adapters == {"A", "B"}

\* the client every NewAdapterByDB is given
Shared == "shared"

\* an instance between two calls; by names its constructor ("none": not
\* built), filtered is its flag, open the cursors of its call that are open
Idle(by) ==
    [filtered |-> FALSE, op |-> "idle", args |-> NoArgs, err |-> Nil, ret |-> NoRet,
     lines |-> <<>>, open |-> {}, oldLines |-> <<>>, by |-> by, pc |-> "idle",
     deleted |-> EmptyBag, tries |-> 0]

NoCalls == [a \in Adapters |-> Idle("none")]

NoAdapter == [name |-> "none", IsFiltered |-> FALSE]

BuiltBy(name, isFiltered) == [name |-> name, IsFiltered |-> isFiltered]

built == ctor.name # "none"

Init ==
    /\ coll = EmptyBag
    /\ hasIndex = FALSE
    /\ ctor = NoAdapter
    /\ filtered = FALSE
    /\ lastLoad = "none"
    /\ op = "idle"
    /\ args = NoArgs
    /\ err = Nil
    /\ ret = NoRet
    /\ pre = NoPre
    /\ logged = NoLog
    /\ calls = NoCalls
    /\ connected = {Shared}

\* an operation runs to its return: r is what it leaves and returns
Call(name, a, r) ==
    /\ op = "idle"
    /\ BagCardinality(r.coll) <= MaxColl
    /\ pre' = S
    /\ coll' = r.coll
    /\ hasIndex' = r.hasIndex
    /\ filtered' = r.filtered
    /\ op' = name
    /\ args' = a
    /\ err' = r.err
    /\ ret' = r.ret
    /\ logged' = r.log
    /\ UNCHANGED <<calls, connected>>

\* a constructor yields a new adapter, or an error and no adapter
Construct(name, isFiltered, a, r) ==
    /\ Call(name, a, r)
    /\ ctor' = IF r.err = Nil THEN BuiltBy(name, isFiltered) ELSE ctor
    /\ lastLoad' = IF r.err = Nil THEN "none" ELSE lastLoad

Method(name, a, r) ==
    /\ built
    /\ Call(name, a, r)
    /\ UNCHANGED <<ctor, lastLoad>>

Load(name, a, r) ==
    /\ built
    /\ Call(name, a, r)
    /\ lastLoad' = IF a.filter.isNil THEN "nil" ELSE "filter"
    /\ UNCHANGED ctor

\* the caller takes the result
Return ==
    /\ op # "idle"
    /\ op' = "idle"
    /\ args' = NoArgs
    /\ err' = Nil
    /\ ret' = NoRet
    /\ pre' = NoPre
    /\ logged' = NoLog
    /\ UNCHANGED <<coll, hasIndex, ctor, filtered, lastLoad, calls, connected>>

NewAdapterCall ==
    \E urlOk \in BOOLEAN, timeout \in Timeouts, fault \in OpenFaults :
        Construct("NewAdapter", FALSE,
                  [urlOk |-> urlOk, timeout |-> timeout, fault |-> fault],
                  NewAdapter(S, urlOk, timeout, fault))

NewAdapterWithClientOptionCall ==
    \E timeout \in Timeouts, fault \in OpenFaults :
        Construct("NewAdapterWithClientOption", FALSE,
                  [timeout |-> timeout, fault |-> fault],
                  NewAdapterWithClientOption(S, timeout, fault))

NewAdapterWithCollectionNameCall ==
    \E timeout \in Timeouts, fault \in OpenFaults :
        Construct("NewAdapterWithCollectionName", FALSE,
                  [timeout |-> timeout, fault |-> fault],
                  NewAdapterWithCollectionName(S, timeout, fault))

NewFilteredAdapterCall ==
    \E urlOk \in BOOLEAN, fault \in OpenFaults :
        Construct("NewFilteredAdapter", FALSE, [urlOk |-> urlOk, fault |-> fault],
                  NewFilteredAdapter(S, urlOk, fault))

NewAdapterByDBCall ==
    \E isFiltered \in BOOLEAN :
        Construct("NewAdapterByDB", isFiltered, [config |-> [IsFiltered |-> isFiltered]],
                  NewAdapterByDB(S, [IsFiltered |-> isFiltered]))

LoadPolicyCall ==
    \E order \in Orders(Loaded(coll, NilFilter)) :
        \E model \in LoadTargets, findFails \in BOOLEAN :
            Load("LoadPolicy", [model |-> model, filter |-> NilFilter],
                 LoadPolicy(S, model, order, findFails))

LoadFilteredPolicyCall ==
    \E filter \in Filters :
        \E order \in Orders(Loaded(coll, filter)), model \in LoadTargets, findFails \in BOOLEAN :
            Load("LoadFilteredPolicy", [model |-> model, filter |-> filter],
                 LoadFilteredPolicy(S, model, filter, order, findFails))

SavePolicyCall(MS, withFaults) ==
    \E model \in MS :
        \E fault \in (IF withFaults THEN SaveFaults(model) ELSE {NoFault}) :
            \E pOrder \in (IF fault.at = "insert" THEN KeyOrdersP ELSE {KeyOrderP}) :
                Method("SavePolicy", [model |-> model, fault |-> fault],
                       SavePolicy(S, model, pOrder, KeyOrderG, fault))

AddPolicyCall(PT, RS) ==
    \E ptype \in PT, rule \in RS :
        Method("AddPolicy", [ptype |-> ptype, rule |-> rule], AddPolicy(S, ptype, rule))

AddPoliciesCall(PT, BS, withFaults) ==
    \E ptype \in PT, rules \in BS :
        \E failAt \in FailAts(rules, withFaults) :
            Method("AddPolicies", [ptype |-> ptype, rules |-> rules, failAt |-> failAt],
                   AddPolicies(S, ptype, rules, failAt))

RemovePoliciesCall(PT, BS, withFaults) ==
    \E ptype \in PT, rules \in BS :
        \E failAt \in FailAts(rules, withFaults) :
            Method("RemovePolicies", [ptype |-> ptype, rules |-> rules, failAt |-> failAt],
                   RemovePolicies(S, ptype, rules, failAt))

RemovePolicyCall(PT, RS, withFaults) ==
    \E ptype \in PT, rule \in RS, fails \in (IF withFaults THEN BOOLEAN ELSE {FALSE}) :
        Method("RemovePolicy", [ptype |-> ptype, rule |-> rule, fails |-> fails],
               RemovePolicy(S, ptype, rule, fails))

RemoveFilteredPolicyCall(PT, FI, VL, withFaults) ==
    \E ptype \in PT, fieldIndex \in FI, fieldValues \in VL,
       fails \in (IF withFaults THEN BOOLEAN ELSE {FALSE}) :
        Method("RemoveFilteredPolicy",
               [ptype |-> ptype, fieldIndex |-> fieldIndex, fieldValues |-> fieldValues,
                fails |-> fails],
               RemoveFilteredPolicy(S, ptype, fieldIndex, fieldValues, fails))

UpdatePolicyCall(PT, RS) ==
    \E ptype \in PT, oldRule \in RS, newPolicy \in RS :
        Method("UpdatePolicy",
               [ptype |-> ptype, oldRule |-> oldRule, newPolicy |-> newPolicy],
               UpdatePolicy(S, ptype, oldRule, newPolicy))

UpdatePoliciesCall(PT, BS, withFaults) ==
    \E ptype \in PT, oldRules \in BS, newRules \in BS :
        \E failAt \in FailAts(oldRules, withFaults) :
            Method("UpdatePolicies",
                   [ptype |-> ptype, oldRules |-> oldRules, newRules |-> newRules,
                    failAt |-> failAt],
                   UpdatePolicies(S, ptype, oldRules, newRules, failAt))

UpdateFilteredPoliciesCall(PT, BS, FI, VL, withFaults) ==
    \E ptype \in PT, fieldIndex \in FI, fieldValues \in VL :
        \E order \in Orders(Find(coll, selectorOf(ptype, fieldIndex, fieldValues))),
           newPolicies \in BS :
            \E store \in Stores(Len(newPolicies), withFaults) :
                Method("UpdateFilteredPolicies",
                       [ptype |-> ptype, fieldIndex |-> fieldIndex,
                        fieldValues |-> fieldValues, store |-> store,
                        newPolicies |-> newPolicies],
                       UpdateFilteredPolicies(S, ptype, newPolicies, fieldIndex,
                                              fieldValues, order, store))

\* every operation of the adapter, on a small collection
Next ==
    \/ NewAdapterCall
    \/ NewAdapterWithClientOptionCall
    \/ NewAdapterWithCollectionNameCall
    \/ NewFilteredAdapterCall
    \/ NewAdapterByDBCall
    \/ LoadPolicyCall
    \/ LoadFilteredPolicyCall
    \/ SavePolicyCall(TinyModels, TRUE)
    \/ AddPolicyCall({p}, TinyRules)
    \/ AddPoliciesCall({p}, Batches, FALSE)
    \/ RemovePoliciesCall({p}, Batches, FALSE)
    \/ RemovePolicyCall({p}, TinyRules, TRUE)
    \/ RemoveFilteredPolicyCall({p}, {0, 1}, TinyValueLists, TRUE)
    \/ UpdatePolicyCall({p}, TinyRules)
    \/ UpdatePoliciesCall({p}, Batches, FALSE)
    \/ UpdateFilteredPoliciesCall({p}, Batches, {0, 1}, TinyValueLists, FALSE)
    \/ Return

Spec == Init /\ [][Next]_vars

\* the data operations of one adapter, built by NewAdapter (unique index) or
\* by NewAdapterByDB (no index), on a wider range of rules
InitData ==
    /\ coll = EmptyBag
    /\ hasIndex \in BOOLEAN
    /\ ctor = BuiltBy(IF hasIndex THEN "NewAdapter" ELSE "NewAdapterByDB", FALSE)
    /\ filtered = FALSE
    /\ lastLoad = "none"
    /\ op = "idle"
    /\ args = NoArgs
    /\ err = Nil
    /\ ret = NoRet
    /\ pre = NoPre
    /\ logged = NoLog
    /\ calls = NoCalls
    /\ connected = {Shared}

NextData ==
    \/ SavePolicyCall(Models, FALSE)
    \/ AddPolicyCall(PTypes, Rules)
    \/ RemovePolicyCall(PTypes, Rules, FALSE)
    \/ RemoveFilteredPolicyCall(PTypes, FieldIndexes, ValueLists, TRUE)
    \/ UpdatePolicyCall(PTypes, Rules)
    \/ Return

SpecData == InitData /\ [][NextData]_vars

\* UpdateFilteredPolicies on every deployment and with every failure of its
\* phases, over a collection filled by AddPolicy
UpdateRules == {<<alice>>, <<alice, bob>>}

\* the new policies of one call: no rule twice
UpdateBatches == {q \in SeqsUpTo(UpdateRules, MaxBatch) : NoRepeat(q)}

NextUpdate ==
    \/ AddPolicyCall(PTypes, UpdateRules)
    \/ UpdateFilteredPoliciesCall(PTypes, UpdateBatches, {0, 1}, TinyValueLists, TRUE)
    \/ Return

SpecUpdate == InitData /\ [][NextUpdate]_vars

\* the single and the batch operations, with a store call of a batch failing
BatchRules == {<<alice>>, <<bob>>, <<alice, bob>>}

RuleBatches == SeqsUpTo(BatchRules, MaxBatch)

NextBatch ==
    \/ AddPolicyCall(PTypes, BatchRules)
    \/ RemovePolicyCall(PTypes, BatchRules, TRUE)
    \/ AddPoliciesCall({p}, RuleBatches, TRUE)
    \/ RemovePoliciesCall(PTypes, RuleBatches, TRUE)
    \/ UpdatePoliciesCall({p}, SeqsUpTo(UpdateRules, MaxBatch), TRUE)
    \/ Return

SpecBatch == InitData /\ [][NextBatch]_vars

-----------------------------------------------------------------------------
(* Two adapter instances on one collection, on a deployment with           *)
(* transactions.  Every store call of an operation is one step; the steps  *)
(* of the two instances interleave.  A transaction takes effect as one     *)
(* step, at its commit.                                                     *)

ConcRules == {<<alice>>, <<bob>>}

ConcBatches == SeqsUpTo(ConcRules, MaxBatch)

ConcModel == [EmptyModel EXCEPT ![p] = <<<<alice>>>>]

ConcNewPolicies == {<<>>, <<<<bob>>>>}

ConcValueLists == {<<>>, <<alice>>}

ReplicaSet == [attempt |-> NoFailure, txn |-> TRUE, fallback |-> NoFailure]

ConcFilters == {NilFilter, Filter([v0 |-> alice])}

\* the positions at which an operation is about to call the store
StorePcs == {"insert", "delete", "drop", "insertMany", "find", "txn", "loadFind"}

InitConc ==
    /\ coll = EmptyBag
    /\ hasIndex = FALSE
    /\ ctor = NoAdapter
    /\ filtered = FALSE
    /\ lastLoad = "none"
    /\ op = "idle"
    /\ args = NoArgs
    /\ err = Nil
    /\ ret = NoRet
    /\ pre = NoPre
    /\ logged = NoLog
    /\ calls = NoCalls
    /\ connected = {Shared}

oneAdapter == <<ctor, filtered, lastLoad, op, args, err, ret, pre, logged>>

\* the client a failed construction of instance a has connected: no
\* instance holds it and nothing disconnects it
Leaked(a) == "leaked " \o a

\* NewAdapter for instance a, up to mongo.Connect in open(): the connect
\* fails and no instance is built, or the client of the instance is
\* connected and the index is still to be created
ConcConnect(a) ==
    /\ calls[a].by = "none"
    /\ calls[a].pc = "idle"
    /\ \E fails \in BOOLEAN :
           IF fails
           THEN UNCHANGED <<calls, connected>>
           ELSE /\ connected' = connected \cup {a}
                /\ calls' = [calls EXCEPT ![a].op = "NewAdapter", ![a].pc = "createIndex"]
    /\ UNCHANGED <<coll, hasIndex, oneAdapter>>

\* NewAdapter for instance a, from Indexes().CreateOne in open() on: the
\* instance is built, or the call fails (for a reason of the deployment, or
\* on documents stored twice) and open() returns the error before the
\* finalizer is set, leaving the client connected
ConcCreateIndex(a) ==
    /\ calls[a].pc = "createIndex"
    /\ \E fails \in BOOLEAN :
           LET made == IF fails THEN [hasIndex |-> hasIndex, err |-> ErrStore]
                       ELSE CreateOne(coll, hasIndex)
           IN /\ hasIndex' = made.hasIndex
              /\ calls' = [calls EXCEPT
                              ![a] = Idle(IF made.err = Nil THEN "NewAdapter" ELSE "none")]
              /\ connected' = IF made.err = Nil THEN connected
                              ELSE (connected \ {a}) \cup {Leaked(a)}
    /\ UNCHANGED <<coll, oneAdapter>>

\* instance a is constructed by NewAdapter, one store call at a time
ConcNewAdapter(a) == ConcConnect(a) \/ ConcCreateIndex(a)

\* instance a is built around the client its caller supplies
ConcNewAdapterByDB(a) ==
    /\ calls[a].by = "none"
    /\ calls[a].pc = "idle"
    /\ LET r == NewAdapterByDB(S, [IsFiltered |-> FALSE])
       IN /\ hasIndex' = r.hasIndex
          /\ calls' = [calls EXCEPT ![a] = Idle(IF r.err = Nil THEN "NewAdapterByDB" ELSE "none")]
    /\ UNCHANGED <<coll, oneAdapter, connected>>

\* instance a as it is between two calls
Rest(a) == [Idle(calls[a].by) EXCEPT !.filtered = calls[a].filtered]

\* the client of instance a: its own, or the one it was given
ClientOf(a) == IF calls[a].by = "NewAdapterByDB" THEN Shared ELSE a

Connected(a) == ClientOf(a) \in connected

\* instance a enters an operation: its arguments are encoded, no store call yet
Begin(a, name, as, pc, lines) ==
    /\ calls[a].by # "none"
    /\ calls[a].pc = "idle"
    /\ calls' = [calls EXCEPT ![a] = [Rest(a) EXCEPT
                     !.op = name, !.args = as, !.pc = pc, !.lines = lines]]
    /\ UNCHANGED <<coll, hasIndex, oneAdapter, connected>>

\* instance a leaves its store call: finished with er and rt, or on to pc
Finish(a, er, rt) ==
    calls' = [calls EXCEPT ![a].pc = "done", ![a].err = er, ![a].ret = rt]

BeginAddPolicy(a) ==
    \E rule \in ConcRules :
        Begin(a, "AddPolicy", [ptype |-> p, rule |-> rule], "insert",
              <<savePolicyLine(p, rule)>>)

BeginAddPolicies(a) ==
    \E rules \in ConcBatches :
        Begin(a, "AddPolicies", [ptype |-> p, rules |-> rules],
              IF rules = <<>> THEN "done" ELSE "insert", encodeAll(p, rules))

BeginRemovePolicy(a) ==
    \E rule \in ConcRules :
        Begin(a, "RemovePolicy", [ptype |-> p, rule |-> rule], "delete",
              <<savePolicyLine(p, rule)>>)

\* SavePolicy up to its guard: a filtered instance returns at once
BeginSavePolicy(a) ==
    /\ calls[a].by # "none"
    /\ calls[a].pc = "idle"
    /\ calls' = [calls EXCEPT ![a] = [Rest(a) EXCEPT
                     !.op = "SavePolicy",
                     !.args = [model |-> ConcModel],
                     !.pc = IF calls[a].filtered THEN "done" ELSE "drop",
                     !.err = IF calls[a].filtered THEN ErrFiltered ELSE Nil,
                     !.lines = linesOf(ConcModel, KeyOrderP) \o linesOf(ConcModel, KeyOrderG)]]
    /\ UNCHANGED <<coll, hasIndex, oneAdapter, connected>>

\* AddPolicy of a rule of rule type g
BeginAddGrouping(a) ==
    \E rule \in ConcRules :
        Begin(a, "AddPolicy", [ptype |-> g, rule |-> rule], "insert",
              <<savePolicyLine(g, rule)>>)

\* LoadFilteredPolicy up to its query: the flag follows the filter
BeginLoadFilteredPolicy(a) ==
    \E filter \in ConcFilters, model \in LoadTargets :
        /\ calls[a].by # "none"
        /\ calls[a].pc = "idle"
        /\ calls' = [calls EXCEPT ![a] = [Rest(a) EXCEPT
                         !.filtered = ~filter.isNil,
                         !.op = "LoadFilteredPolicy",
                         !.args = [model |-> model, filter |-> filter],
                         !.pc = "loadFind",
                         !.ret = model]]
        /\ UNCHANGED <<coll, hasIndex, oneAdapter, connected>>

\* close(): the instance disconnects its client
BeginClose(a) == Begin(a, "close", NoArgs, "disconnect", <<>>)

BeginUpdateFilteredPolicies(a) ==
    \E newPolicies \in ConcNewPolicies, fieldValues \in ConcValueLists :
        Begin(a, "UpdateFilteredPolicies",
              [ptype |-> p, fieldIndex |-> 0, fieldValues |-> fieldValues,
               newPolicies |-> newPolicies],
              "find", encodeAll(p, newPolicies))

\* the InsertOne of AddPolicy, or of the next rule of AddPolicies
InsertOneStep(a) ==
    /\ calls[a].pc = "insert"
    /\ Connected(a)
    /\ LET r == InsertOne(coll, hasIndex, Head(calls[a].lines))
           rest == Tail(calls[a].lines)
       IN /\ BagCardinality(r.coll) <= MaxColl
          /\ coll' = r.coll
          /\ calls' = [calls EXCEPT
                 ![a].lines = rest,
                 ![a].err = r.err,
                 ![a].pc = IF r.err # Nil \/ rest = <<>> THEN "done" ELSE "insert"]
    /\ UNCHANGED <<hasIndex, oneAdapter, connected>>

\* the DeleteOne of RemovePolicy
DeleteOneStep(a) ==
    /\ calls[a].pc = "delete"
    /\ Connected(a)
    /\ coll' = DeleteOne(coll, Head(calls[a].lines))
    /\ Finish(a, Nil, NoRet)
    /\ UNCHANGED <<hasIndex, oneAdapter, connected>>

\* the Drop of SavePolicy
DropStep(a) ==
    /\ calls[a].pc = "drop"
    /\ Connected(a)
    /\ LET d == dropTable(S)
       IN /\ coll' = d.coll
          /\ hasIndex' = d.hasIndex
    /\ calls' = [calls EXCEPT ![a].pc = "insertMany"]
    /\ UNCHANGED <<oneAdapter, connected>>

\* the InsertMany of SavePolicy
InsertManyStep(a) ==
    /\ calls[a].pc = "insertMany"
    /\ Connected(a)
    /\ LET r == InsertMany(coll, hasIndex, calls[a].lines)
       IN /\ BagCardinality(r.coll) <= MaxColl
          /\ coll' = r.coll
          /\ Finish(a, r.err, NoRet)
    /\ UNCHANGED <<hasIndex, oneAdapter, connected>>

\* the Find of updateFilteredPoliciesTxn: it is given ctx, not the session's
\* context, and reads the collection as it is now; the documents are
\* appended to oldLines, which lives outside the callback
FindStep(a) ==
    /\ calls[a].pc = "find"
    /\ Connected(a)
    /\ \E order \in Orders(Find(coll, selectorOf(calls[a].args.ptype,
                          calls[a].args.fieldIndex, calls[a].args.fieldValues))) :
           calls' = [calls EXCEPT ![a].oldLines = @ \o order, ![a].pc = "txn"]
    /\ UNCHANGED <<coll, hasIndex, oneAdapter, connected>>

\* the transaction of updateFilteredPoliciesTxn: DeleteMany and the
\* InsertOnes on the collection as it is now; deleted records what the
\* DeleteMany removed
TxnStep(a) ==
    /\ calls[a].pc = "txn"
    /\ Connected(a)
    /\ LET selector == selectorOf(calls[a].args.ptype, calls[a].args.fieldIndex,
                                  calls[a].args.fieldValues)
           t == updateFilteredPoliciesTxn(S, calls[a].lines, selector,
                                          calls[a].oldLines, ReplicaSet)
       IN /\ BagCardinality(t.coll) <= MaxColl
          /\ coll' = t.coll
          /\ calls' = [calls EXCEPT
                 ![a].pc = "done", ![a].err = t.err, ![a].ret = t.ret,
                 ![a].deleted = IF t.err = Nil THEN Find(coll, selector) ELSE EmptyBag]
    /\ UNCHANGED <<hasIndex, oneAdapter, connected>>

\* the transaction of updateFilteredPoliciesTxn ends in a transient
\* transaction error (a write conflict, a failover): it is aborted and
\* WithTransaction runs the callback again
TxnTransientStep(a) ==
    /\ calls[a].pc = "txn"
    /\ Connected(a)
    /\ calls[a].tries < MaxRetry
    /\ calls' = [calls EXCEPT ![a].pc = "find", ![a].tries = @ + 1]
    /\ UNCHANGED <<coll, hasIndex, oneAdapter, connected>>

\* the Find of LoadFilteredPolicy: it fails, or a cursor over the matching
\* documents is open
LoadFindStep(a) ==
    /\ calls[a].pc = "loadFind"
    /\ Connected(a)
    /\ \E order \in Orders(Loaded(coll, calls[a].args.filter)), findFails \in BOOLEAN :
           calls' = IF findFails
                    THEN [calls EXCEPT ![a].pc = "done", ![a].err = ErrStore]
                    ELSE [calls EXCEPT ![a].pc = "loadNext", ![a].lines = order,
                                       ![a].open = {"cursor"}]
    /\ UNCHANGED <<coll, hasIndex, oneAdapter, connected>>

\* one turn of the cursor loop of LoadFilteredPolicy: the cursor is
\* exhausted and closed, or the next document is decoded and loaded, and
\* either of the two may fail
LoadNextStep(a) ==
    /\ calls[a].pc = "loadNext"
    /\ IF calls[a].lines = <<>>
       THEN calls' = [calls EXCEPT ![a].pc = "done", ![a].err = Nil, ![a].open = {}]
       ELSE \E decodeFails \in BOOLEAN :
                LET r == loadPolicyLine(Head(calls[a].lines), calls[a].ret)
                IN calls' =
                       IF decodeFails
                       THEN [calls EXCEPT ![a].pc = "done", ![a].err = ErrStore]
                       ELSE IF r.err # Nil
                       THEN [calls EXCEPT ![a].pc = "done", ![a].err = r.err]
                       ELSE [calls EXCEPT ![a].lines = Tail(@), ![a].ret = r.model]
    /\ UNCHANGED <<coll, hasIndex, oneAdapter, connected>>

\* a disconnect that spares a client the instance was given
DisconnectOwned(conn, a) == IF ClientOf(a) = Shared THEN conn ELSE conn \ {ClientOf(a)}

\* a.client.Disconnect: the client of instance a is disconnected, whoever
\* else uses it; on a disconnected client it fails and changes nothing
Disconnect(conn, a) == conn \ {ClientOf(a)}

\* the Disconnect of close(); its error is dropped
DisconnectStep(a) ==
    /\ calls[a].pc = "disconnect"
    /\ connected' = Disconnect(connected, a)
    /\ Finish(a, Nil, NoRet)
    /\ UNCHANGED <<coll, hasIndex, oneAdapter>>

\* the finalizer: an instance nobody refers to any more is closed
Finalize(a) ==
    /\ calls[a].by # "none"
    /\ calls[a].pc = "idle"
    /\ connected' = Disconnect(connected, a)
    /\ calls' = [calls EXCEPT ![a] = Idle("none")]
    /\ UNCHANGED <<coll, hasIndex, oneAdapter>>

\* the store call instance a is about to make, on a disconnected client:
\* the driver refuses it and the operation returns the error
DisconnectedStep(a) ==
    /\ calls[a].pc \in StorePcs
    /\ ~Connected(a)
    /\ Finish(a, ErrClientDisconnected, NoRet)
    /\ UNCHANGED <<coll, hasIndex, oneAdapter, connected>>

\* the caller of instance a takes the result
ConcReturn(a) ==
    /\ calls[a].pc = "done"
    /\ calls' = [calls EXCEPT ![a] = Rest(a)]
    /\ UNCHANGED <<coll, hasIndex, oneAdapter, connected>>

NextConc ==
    \E a \in Adapters :
        \/ ConcNewAdapter(a)
        \/ ConcNewAdapterByDB(a)
        \/ BeginAddPolicy(a)
        \/ BeginAddPolicies(a)
        \/ BeginRemovePolicy(a)
        \/ BeginSavePolicy(a)
        \/ BeginUpdateFilteredPolicies(a)
        \/ InsertOneStep(a)
        \/ DeleteOneStep(a)
        \/ DropStep(a)
        \/ InsertManyStep(a)
        \/ FindStep(a)
        \/ TxnStep(a)
        \/ ConcReturn(a)

SpecConc == InitConc /\ [][NextConc]_vars

\* writers next to an UpdateFilteredPolicies whose transaction is retried
NextRetry ==
    \E a \in Adapters :
        \/ ConcNewAdapter(a)
        \/ BeginAddPolicy(a)
        \/ BeginRemovePolicy(a)
        \/ BeginUpdateFilteredPolicies(a)
        \/ InsertOneStep(a)
        \/ DeleteOneStep(a)
        \/ FindStep(a)
        \/ TxnTransientStep(a)
        \/ TxnStep(a)
        \/ ConcReturn(a)

SpecRetry == InitConc /\ [][NextRetry]_vars

\* loads next to writers, the cursor loop turn by turn
NextScope ==
    \E a \in Adapters :
        \/ ConcNewAdapter(a)
        \/ BeginAddPolicy(a)
        \/ BeginAddGrouping(a)
        \/ BeginLoadFilteredPolicy(a)
        \/ BeginSavePolicy(a)
        \/ InsertOneStep(a)
        \/ DropStep(a)
        \/ InsertManyStep(a)
        \/ LoadFindStep(a)
        \/ LoadNextStep(a)
        \/ ConcReturn(a)

SpecScope == InitConc /\ [][NextScope]_vars

\* instances that are closed or finalized while others go on
NextClose ==
    \E a \in Adapters :
        \/ ConcNewAdapter(a)
        \/ ConcNewAdapterByDB(a)
        \/ BeginAddPolicy(a)
        \/ BeginRemovePolicy(a)
        \/ BeginSavePolicy(a)
        \/ BeginClose(a)
        \/ InsertOneStep(a)
        \/ DeleteOneStep(a)
        \/ DropStep(a)
        \/ InsertManyStep(a)
        \/ DisconnectStep(a)
        \/ Finalize(a)
        \/ DisconnectedStep(a)
        \/ ConcReturn(a)

SpecClose == InitConc /\ [][NextClose]_vars

\* the codec alone: an input is drawn, encoded, and the document decoded
\* into an empty policy set
CodecValues == {alice, bob, alice_bob}

CodecRules == SeqsUpTo(CodecValues, MaxFields)

InitCodec ==
    /\ coll = EmptyBag
    /\ hasIndex = FALSE
    /\ ctor = NoAdapter
    /\ filtered = FALSE
    /\ lastLoad = "none"
    /\ op = "input"
    /\ args \in [ptype : {p, p2, g}, rule : CodecRules]
    /\ err = Nil
    /\ ret = NoRet
    /\ pre = NoPre
    /\ logged = NoLog
    /\ calls = NoCalls
    /\ connected = {Shared}

Encode ==
    /\ op = "input"
    /\ op' = "encoded"
    /\ ret' = savePolicyLine(args.ptype, args.rule)
    /\ UNCHANGED <<coll, hasIndex, ctor, filtered, lastLoad, args, err, pre, logged, calls,
                   connected>>

Decode ==
    /\ op = "encoded"
    /\ op' = "decoded"
    /\ ret' = loadPolicyLine(ret, EmptyModel)
    /\ UNCHANGED <<coll, hasIndex, ctor, filtered, lastLoad, args, err, pre, logged, calls,
                   connected>>

NextCodec == Encode \/ Decode

SpecCodec == InitCodec /\ [][NextCodec]_vars

\* the codec on the documents of rules that have empty fields anywhere
GapValues == {EmptyStr, alice, bob}

GapRules == SeqsUpTo(GapValues, MaxFields)

InitDecode ==
    /\ coll = EmptyBag
    /\ hasIndex = FALSE
    /\ ctor = NoAdapter
    /\ filtered = FALSE
    /\ lastLoad = "none"
    /\ op = "input"
    /\ args \in [ptype : {p, g}, rule : GapRules]
    /\ err = Nil
    /\ ret = NoRet
    /\ pre = NoPre
    /\ logged = NoLog
    /\ calls = NoCalls
    /\ connected = {Shared}

SpecDecode == InitDecode /\ [][NextCodec]_vars

-----------------------------------------------------------------------------
(* Properties *)

Constructors ==
    {"NewAdapter", "NewAdapterWithClientOption", "NewAdapterWithCollectionName",
     "NewFilteredAdapter", "NewAdapterByDB"}

Methods ==
    {"SavePolicy", "AddPolicy", "AddPolicies", "RemovePolicies", "RemovePolicy",
     "RemoveFilteredPolicy", "UpdatePolicy", "UpdatePolicies", "UpdateFilteredPolicies"}

\* the number of documents of c equal to d
Copies(d, c) == IF BagIn(d, c) THEN c[d] ELSE 0

\* C1: a SavePolicy called while the adapter is in filtered state returns the
\* error "cannot save a filtered policy" and leaves the stored collection (and
\* its index) untouched; once the most recent load was an unfiltered one,
\* SavePolicy is not rejected with that error.
C1_FilteredSaveGuard ==
    /\ (op = "SavePolicy" /\ pre.filtered) =>
           /\ err = ErrFiltered
           /\ coll = pre.coll
           /\ hasIndex = pre.hasIndex
    /\ (op = "SavePolicy" /\ lastLoad = "nil") => err # ErrFiltered

\* a filtered adapter over a non-empty collection has refused to save a
\* non-empty policy set
C1_Witness ==
    /\ op = "SavePolicy"
    /\ pre.filtered
    /\ lastLoad = "filter"
    /\ err = ErrFiltered
    /\ coll # EmptyBag
    /\ args.model[p] # <<>>

\* C2: after any load, IsFiltered() tells whether the most recent load was
\* given a non-nil filter; SavePolicy, AddPolicy, AddPolicies, RemovePolicy,
\* RemovePolicies, RemoveFilteredPolicy, UpdatePolicy, UpdatePolicies and
\* UpdateFilteredPolicies leave the flag as it was.
C2_FlagFollowsLastLoad ==
    /\ lastLoad # "none" => IsFiltered(S) = (lastLoad = "filter")
    /\ op \in Methods => filtered = pre.filtered

\* a filtered load was followed by an unfiltered one, and a write that
\* changed the collection left the lowered flag alone
C2_Witness ==
    /\ op = "UpdateFilteredPolicies"
    /\ lastLoad = "nil"
    /\ ctor.name = "NewFilteredAdapter"
    /\ ~IsFiltered(S)
    /\ err = Nil
    /\ coll # pre.coll

\* the adapter in use was handed out in filtered state
BuiltFiltered == ctor.name = "NewFilteredAdapter" \/ ctor.IsFiltered

\* C3 (as stated): every newly constructed adapter, NewFilteredAdapter's and
\* NewAdapterByDB's with a default config included, has IsFiltered() = false
\* and is not refused by SavePolicy before its first load.
C3_Original ==
    (built /\ lastLoad = "none" /\ ~ctor.IsFiltered) =>
        /\ ~IsFiltered(S)
        /\ op = "SavePolicy" => err # ErrFiltered

\* C3 (amended): before its first load, an adapter built by NewAdapter,
\* NewAdapterWithClientOption, NewAdapterWithCollectionName or NewAdapterByDB
\* with a default config has IsFiltered() = false and SavePolicy is not
\* refused; one built by NewFilteredAdapter (or NewAdapterByDB with
\* IsFiltered set) has IsFiltered() = true and SavePolicy is refused.
C3_ConstructedFlag ==
    (built /\ lastLoad = "none") =>
        /\ IsFiltered(S) = BuiltFiltered
        /\ op = "SavePolicy" => ((err = ErrFiltered) = BuiltFiltered)

\* an adapter fresh from NewFilteredAdapter has refused to save
C3_Witness ==
    /\ op = "SavePolicy"
    /\ ctor.name = "NewFilteredAdapter"
    /\ lastLoad = "none"
    /\ IsFiltered(S)
    /\ err = ErrFiltered

Range(q) == {q[i] : i \in 1..Len(q)}

\* the rule types SavePolicy writes: those of sections "p" and "g"
SavedKeys == {k \in ModelKeys : SectionOf(k) \in {p, g}}

\* a policy set as C4 takes it: rules pairwise distinct under their rule
\* type, each of 1 to 6 non-empty fields
Savable(model) ==
    \A k \in SavedKeys :
        /\ NoRepeat(model[k])
        /\ \A i \in 1..Len(model[k]) :
               /\ Len(model[k][i]) \in 1..MaxFields
               /\ \A j \in 1..Len(model[k][i]) : model[k][i][j] # EmptyStr

\* C4 (as stated): after a successful SavePolicy of such a policy set, a
\* LoadPolicy into an empty policy set succeeds and yields, for every rule
\* type, the set of rules that was saved.
C4_SaveLoadRoundTrip ==
    (op = "SavePolicy" /\ err = Nil /\ Savable(args.model)) =>
        \A order \in Orders(Loaded(coll, NilFilter)) :
            LET loaded == LoadPolicy(S, EmptyModel, order, FALSE)
            IN /\ loaded.err = Nil
               /\ \A k \in SavedKeys : Range(loaded.ret[k]) = Range(args.model[k])

\* the places <<rule type, position>> of the rules SavePolicy writes
SavedPlaces(model) == UNION {{<<k, i>> : i \in 1..Len(model[k])} : k \in SavedKeys}

\* every document some rule of the policy set encodes to, saved or not
DocsOf(model) ==
    UNION {{savePolicyLine(k, model[k][i]) : i \in 1..Len(model[k])} : k \in ModelKeys}

\* C5: after a successful SavePolicy the collection holds exactly one
\* document per rule under sections "p" and "g" of the given policy set and
\* nothing else: what was stored before is gone, and rules of other sections
\* are not written.
C5_SaveReplaces ==
    (op = "SavePolicy" /\ err = Nil) =>
        \A d \in BagToSet(coll) \cup BagToSet(pre.coll) \cup DocsOf(args.model) :
            Copies(d, coll) =
                Cardinality({pl \in SavedPlaces(args.model) :
                                savePolicyLine(pl[1], args.model[pl[1]][pl[2]]) = d})

\* a save over a collection holding a rule the policy set lacks, of a policy
\* set with rules under "p", "g" and section "e"
C5_Witness ==
    /\ op = "SavePolicy"
    /\ err = Nil
    /\ \E d \in BagToSet(pre.coll) : ~BagIn(d, coll)
    /\ args.model[e] # <<>>
    /\ args.model[p] # <<>>
    /\ BagCardinality(coll) = 1

\* C6 (as stated): decoding the document that encodes (tag, fields) into an
\* empty policy set adds exactly the rule fields under rule type tag, for
\* every tag and every list of at most 6 non-empty fields, the empty list
\* included.
C6_CodecRoundTrip ==
    op = "decoded" =>
        /\ ret.err = Nil
        /\ ret.model = [EmptyModel EXCEPT ![args.ptype] = <<args.rule>>]

\* the constructors that run open(), which ensures the unique index
Opening == Constructors \ {"NewAdapterByDB"}

\* C7 (as stated, for an adapter whose constructor ensured the unique index):
\* in every state reachable by adapter operations, SavePolicy included, no
\* two stored documents are equal, and an AddPolicy of a (ptype, rule) that
\* is already stored returns an error and leaves the collection unchanged.
C7_NoDuplicateRule ==
    ctor.name \in Opening =>
        /\ \A d \in BagToSet(coll) : Copies(d, coll) = 1
        /\ (op = "AddPolicy" /\ BagIn(savePolicyLine(args.ptype, args.rule), pre.coll)) =>
               /\ err # Nil
               /\ coll = pre.coll

\* C8 (as stated, for an adapter whose constructor ensured the unique index):
\* RemovePolicy succeeds; removing the same rule again succeeds and changes
\* nothing; removing a rule that is not stored changes nothing (the store
\* answering every call).
C8_RemoveIdempotent ==
    (ctor.name \in Opening /\ op = "RemovePolicy" /\ ~args.fails) =>
        LET again == RemovePolicy(S, args.ptype, args.rule, FALSE)
        IN /\ err = Nil
           /\ again.err = Nil
           /\ again.coll = coll
           /\ ~BagIn(savePolicyLine(args.ptype, args.rule), pre.coll) => coll = pre.coll

\* C9's match: ptype equals the given one and, for every supplied value that
\* is not empty, the field at fieldIndex + its position equals it
FilterMatch(d, ptype, fieldIndex, fieldValues) ==
    /\ d["ptype"] = ptype
    /\ \A i \in 1..Len(fieldValues) :
           (fieldValues[i] # EmptyStr /\ fieldIndex + i - 1 < MaxFields) =>
               d[VKey(fieldIndex + i - 1)] = fieldValues[i]

\* C9: RemoveFilteredPolicy(ptype, fieldIndex, values) succeeds, matched or
\* not, and deletes exactly the stored documents that match; every other
\* document stays, for every fieldIndex from 0 to 5.  It returns an error
\* only when its DeleteMany call does, and then nothing is deleted.
C9_RemoveFilteredExact ==
    op = "RemoveFilteredPolicy" =>
        IF args.fails
        THEN err = ErrStore /\ coll = pre.coll
        ELSE /\ err = Nil
             /\ BagToSet(coll) \subseteq BagToSet(pre.coll)
             /\ \A d \in BagToSet(pre.coll) :
                    Copies(d, coll) =
                        IF FilterMatch(d, args.ptype, args.fieldIndex, args.fieldValues)
                        THEN 0 ELSE Copies(d, pre.coll)

\* a filter with an empty leading value, placed past V0, deleted one stored
\* document and kept another
C9_Witness ==
    /\ op = "RemoveFilteredPolicy"
    /\ ~args.fails
    /\ args.fieldIndex > 0
    /\ args.fieldValues = <<EmptyStr, bob>>
    /\ BagCardinality(pre.coll) = 2
    /\ BagCardinality(coll) = 1

\* what replacing one document equal to oldLine by newLine leaves
Replaced(d, c, oldLine, newLine) ==
    Copies(d, c) - (IF d = oldLine THEN 1 ELSE 0) + (IF d = newLine THEN 1 ELSE 0)

\* C10 (as stated): UpdatePolicy replaces the one stored document equal to
\* the encoding of old by the encoding of new; when none is equal it
\* succeeds, changes nothing and does not insert new.
C10_Original ==
    op = "UpdatePolicy" =>
        LET oldLine == savePolicyLine(args.ptype, args.oldRule)
            newLine == savePolicyLine(args.ptype, args.newPolicy)
        IN IF BagIn(oldLine, pre.coll)
           THEN \A d \in BagToSet(pre.coll) \cup {newLine} :
                    Copies(d, coll) = Replaced(d, pre.coll, oldLine, newLine)
           ELSE err = Nil /\ coll = pre.coll

\* C10 (amended): as stated, except that when a document equals old, new
\* differs from old, a document equal to new is stored as well and the
\* collection has its unique index, UpdatePolicy returns the duplicate-key
\* error and changes nothing.
C10_UpdateReplacesOne ==
    op = "UpdatePolicy" =>
        LET oldLine == savePolicyLine(args.ptype, args.oldRule)
            newLine == savePolicyLine(args.ptype, args.newPolicy)
            clash == pre.hasIndex /\ newLine # oldLine /\ BagIn(newLine, pre.coll)
        IN IF ~BagIn(oldLine, pre.coll) THEN err = Nil /\ coll = pre.coll
           ELSE IF clash THEN err = ErrDuplicateKey /\ coll = pre.coll
           ELSE /\ err = Nil
                /\ \A d \in BagToSet(pre.coll) \cup BagToSet(coll) \cup {newLine} :
                       Copies(d, coll) = Replaced(d, pre.coll, oldLine, newLine)

\* a stored rule was replaced by a different one next to a second document
\* that stayed
C10_Witness ==
    /\ op = "UpdatePolicy"
    /\ err = Nil
    /\ BagIn(savePolicyLine(args.ptype, args.oldRule), pre.coll)
    /\ ~BagIn(savePolicyLine(args.ptype, args.oldRule), coll)
    /\ BagIn(savePolicyLine(args.ptype, args.newPolicy), coll)
    /\ BagCardinality(coll) = 2

\* the field list a document stores: V0 up to its last non-empty field
FieldsOf(d) ==
    LET used == {i \in 0..(MaxFields - 1) : d[VKey(i)] # EmptyStr}
        n == IF used = {} THEN 0 ELSE (CHOOSE i \in used : \A j \in used : j <= i) + 1
    IN [i \in 1..n |-> d[VKey(i - 1)]]

\* the number of entries of the list q equal to x
Entries(x, q) == Cardinality({i \in 1..Len(q) : q[i] = x})

\* the documents of c that the call's selector matches
Matching(c) ==
    {d \in BagToSet(c) : FilterMatch(d, args.ptype, args.fieldIndex, args.fieldValues)}

\* the number of stored copies of the documents in ds
RECURSIVE CopiesOfAll(_, _)
CopiesOfAll(ds, c) ==
    IF ds = {} THEN 0
    ELSE LET d == CHOOSE x \in ds : TRUE IN Copies(d, c) + CopiesOfAll(ds \ {d}, c)

\* C11 (as stated): a successful UpdateFilteredPolicies returns one entry per
\* document that matched the selector before the call, each entry the
\* document's field list without the rule-type tag.
C11_RemovedList ==
    (op = "UpdateFilteredPolicies" /\ err = Nil) =>
        /\ Len(ret) = CopiesOfAll(Matching(pre.coll), pre.coll)
        /\ \A d \in Matching(pre.coll) :
               Entries(FieldsOf(d), ret) =
                   CopiesOfAll({x \in Matching(pre.coll) : FieldsOf(x) = FieldsOf(d)}, pre.coll)

\* C12: after a successful UpdateFilteredPolicies, on the transactional or
\* the non-transactional path, the collection is the previous one without
\* every document the selector matched and with one more document per new
\* policy, a new policy that matches the selector included; every other
\* document is kept.
C12_UpdateFilteredEffect ==
    (op = "UpdateFilteredPolicies" /\ err = Nil) =>
        LET newLines == [i \in 1..Len(args.newPolicies) |->
                            savePolicyLine(args.ptype, args.newPolicies[i])]
        IN \A d \in BagToSet(pre.coll) \cup BagToSet(coll) \cup Range(newLines) :
               Copies(d, coll) =
                   (IF d \in Matching(pre.coll) THEN 0 ELSE Copies(d, pre.coll))
                   + Entries(d, newLines)

\* without transactions, a new policy that the selector matches replaced a
\* matching document next to a document of the other rule type
C12_Witness ==
    /\ op = "UpdateFilteredPolicies"
    /\ err = Nil
    /\ ~args.store.txn
    /\ Matching(pre.coll) # {}
    /\ \E i \in 1..Len(args.newPolicies) :
           FilterMatch(savePolicyLine(args.ptype, args.newPolicies[i]),
                       args.ptype, args.fieldIndex, args.fieldValues)
    /\ \E d \in BagToSet(coll) : d["ptype"] # args.ptype
    /\ coll # pre.coll

\* C13: on a deployment with transactions, an UpdateFilteredPolicies whose
\* read, delete-many or any insert fails (a uniqueness violation of a new
\* policy included) returns an error and leaves the collection exactly as it
\* was before the call.
C13_TxnAtomic ==
    (op = "UpdateFilteredPolicies" /\ args.store.txn) =>
        /\ args.store.attempt.at # "none" => err # Nil
        /\ (pre.hasIndex /\ \E i \in 1..Len(args.newPolicies) :
                LET d == savePolicyLine(args.ptype, args.newPolicies[i])
                IN BagIn(d, pre.coll) /\ d \notin Matching(pre.coll)) => err # Nil
        /\ err # Nil => (coll = pre.coll /\ hasIndex = pre.hasIndex)

\* in a transaction the matching documents were deleted and one new policy
\* inserted before a later insert failed
C13_Witness ==
    /\ op = "UpdateFilteredPolicies"
    /\ args.store.txn
    /\ args.store.attempt.at = "insert"
    /\ args.store.attempt.done >= 1
    /\ Matching(pre.coll) # {}
    /\ ~(savePolicyLine(args.ptype, args.newPolicies[1]) \in BagToSet(pre.coll))
    /\ err = ErrStore
    /\ coll = pre.coll

\* the transactional attempt was refused as unsupported: it reached its
\* first write on a deployment without transactions
Code20 == ~args.store.txn /\ args.store.attempt.at = "none"

\* C14: UpdateFilteredPolicies runs the non-transactional sequence, and logs
\* the warning, exactly when the transactional attempt failed as unsupported
\* (code 20); after any other error of the attempt it returns that error
\* with no removed list and nothing of the non-transactional sequence has
\* taken place.
C14_FallbackOnlyOnCode20 ==
    op = "UpdateFilteredPolicies" =>
        /\ (logged = <<Warning>>) = Code20
        /\ logged \in {NoLog, <<Warning>>}
        /\ Code20 =>
               LET run == updateFilteredPolicies(pre, encodeAll(args.ptype, args.newPolicies),
                              selectorOf(args.ptype, args.fieldIndex, args.fieldValues),
                              <<>>, args.store.fallback)
               IN coll = run.coll /\ err = run.err
        /\ (~Code20 /\ err # Nil) => (ret = NoRet /\ coll = pre.coll)

\* a deployment without transactions: the warning was logged and the
\* non-transactional sequence changed the collection
C14_Witness ==
    /\ op = "UpdateFilteredPolicies"
    /\ Code20
    /\ logged = <<Warning>>
    /\ err = Nil
    /\ Matching(pre.coll) # {}
    /\ coll # pre.coll

\* the encodings of the rules of the batch in progress
BatchLines == [i \in 1..Len(args.rules) |-> savePolicyLine(args.ptype, args.rules[i])]

\* none of the rules given to the call was stored when it was called
NoneStored ==
    IF op = "AddPolicy" THEN ~BagIn(savePolicyLine(args.ptype, args.rule), pre.coll)
    ELSE \A i \in 1..Len(args.rules) : ~BagIn(BatchLines[i], pre.coll)

\* the add has succeeded, and removing the same rules succeeds and gives
\* back the collection as it was before the add
AddThenRemoveRestores ==
    LET back == IF op = "AddPolicy" THEN RemovePolicy(S, args.ptype, args.rule, FALSE)
                ELSE RemovePolicies(S, args.ptype, args.rules, 0)
    IN err = Nil /\ back.err = Nil /\ back.coll = pre.coll

RECURSIVE LinesBag(_)
LinesBag(q) == IF q = <<>> THEN EmptyBag ELSE One(Head(q)) (+) LinesBag(Tail(q))

\* the place of the first encoding of q that repeats an earlier one
FirstRepeat(q) ==
    CHOOSE j \in 1..Len(q) :
        /\ \E i \in 1..(j - 1) : q[i] = q[j]
        /\ \A m \in 1..(j - 1) : \A i \in 1..(m - 1) : q[i] # q[m]

ItemFails(n, c) ==
    \/ args.failAt = n
    \/ /\ op = "AddPolicies"
       /\ pre.hasIndex
       /\ BagIn(BatchLines[n], c)
    \/ /\ op = "UpdatePolicies"
       /\ pre.hasIndex
       /\ LET oldLine == savePolicyLine(args.ptype, args.oldRules[n])
              newLine == savePolicyLine(args.ptype, args.newRules[n])
          IN BagIn(oldLine, c) /\ newLine # oldLine /\ BagIn(newLine, c)

\* what the items 1..n of the batch in progress leave when each succeeds
Prefix(n) ==
    IF op = "AddPolicies"
    THEN AddPolicies(pre, args.ptype, SubSeq(args.rules, 1, n), 0)
    ELSE IF op = "RemovePolicies"
    THEN RemovePolicies(pre, args.ptype, SubSeq(args.rules, 1, n), 0)
    ELSE UpdatePolicies(pre, args.ptype, SubSeq(args.oldRules, 1, n),
                        SubSeq(args.newRules, 1, n), 0)

\* the items of the batch in progress that have a store call
Items ==
    IF op = "UpdatePolicies"
    THEN 1..(IF Len(args.oldRules) < Len(args.newRules)
             THEN Len(args.oldRules) ELSE Len(args.newRules))
    ELSE 1..Len(args.rules)

\* C17: when item N of AddPolicies, RemovePolicies or UpdatePolicies fails,
\* the call returns that error and the collection holds the effects of
\* items 1..N-1 and nothing of the items from N on.
C17_BatchStopsAtFirstFailure ==
    (op \in {"AddPolicies", "RemovePolicies", "UpdatePolicies"} /\ err # Panic) =>
        /\ err # Nil =>
               \E n \in Items :
                   /\ Prefix(n - 1).err = Nil
                   /\ ItemFails(n, Prefix(n - 1).coll)
                   /\ coll = Prefix(n - 1).coll
                   /\ err = (IF args.failAt = n THEN ErrStore ELSE ErrDuplicateKey)
        /\ err = Nil => \A n \in Items : ~ItemFails(n, Prefix(n - 1).coll)

\* the first rule of a batch was inserted and the second refused by the
\* unique index
C17_Witness ==
    /\ op = "AddPolicies"
    /\ args.failAt = 0
    /\ Len(args.rules) >= 2
    /\ err = ErrDuplicateKey
    /\ BagCardinality(coll) = BagCardinality(pre.coll) + 1

\* the stored documents the filter of the load in progress selects
Selected(c) ==
    {d \in BagToSet(c) : args.filter.isNil \/ Matches(d, args.filter.selector)}

\* the number of rules of a policy set
RECURSIVE RulesIn(_, _)
RulesIn(model, keys) ==
    IF keys = {} THEN 0
    ELSE LET k == CHOOSE x \in keys : TRUE
         IN Len(model[k]) + RulesIn(model, keys \ {k})

\* the rule under rule type k is what the document d loads as
LoadsAs(d, k, rule) == loadPolicyLine(d, EmptyModel).model[k] = <<rule>>

\* C16: LoadPolicy and LoadFilteredPolicy leave the collection and its index
\* as they were; the rules a load adds to the policy set are rules of
\* documents its filter matches, at most one per such document and, when it
\* succeeds, every such document that has a first field; the documents the
\* filter does not match stay stored and an unfiltered load reads them.
C16_LoadsReadOnly ==
    op \in {"LoadPolicy", "LoadFilteredPolicy"} =>
        /\ coll = pre.coll
        /\ hasIndex = pre.hasIndex
        /\ Loaded(coll, NilFilter) = pre.coll
        /\ \A k \in DOMAIN ret : \A i \in 1..Len(ret[k]) :
               \E d \in Selected(pre.coll) : LoadsAs(d, k, ret[k][i])
        /\ RulesIn(ret, DOMAIN ret) <= CopiesOfAll(Selected(pre.coll), pre.coll)
        /\ err = Nil =>
               \A d \in Selected(pre.coll) :
                   d["v0"] # EmptyStr =>
                       \E k \in DOMAIN ret : \E i \in 1..Len(ret[k]) : LoadsAs(d, k, ret[k][i])

\* a load with a filter on the first field read the one matching document
\* and left the other one stored
C16_Witness ==
    /\ op = "LoadFilteredPolicy"
    /\ ~args.filter.isNil
    /\ args.filter.selector # <<>>
    /\ err = Nil
    /\ Selected(pre.coll) # {}
    /\ Selected(pre.coll) # BagToSet(pre.coll)
    /\ RulesIn(ret, DOMAIN ret) = 1
    /\ coll = pre.coll

\* C18 (as stated): every constructor that returns an adapter without
\* error, NewAdapterByDB included, leaves the collection with its unique
\* index over (ptype, v0..v5), and constructing a further adapter on the
\* collection of an existing one does not fail on the index.
C18_ConstructorsEnsureIndex ==
    op \in Constructors =>
        /\ err = Nil => hasIndex
        /\ built => err # ErrIndex

\* the encodings instance a was asked to insert and has handed to the store
Attempted(a) ==
    LET all == IF calls[a].op = "AddPolicy"
               THEN <<savePolicyLine(calls[a].args.ptype, calls[a].args.rule)>>
               ELSE encodeAll(calls[a].args.ptype, calls[a].args.rules)
    IN Range(SubSeq(all, 1, Len(all) - Len(calls[a].lines)))

\* instance a has finished an AddPolicy or AddPolicies and not returned yet
Added(a) == calls[a].op \in {"AddPolicy", "AddPolicies"} /\ calls[a].pc = "done"

\* C19 (as stated): when two adapter instances on one collection have both
\* added the same (ptype, v0..v5) tuple by AddPolicy or AddPolicies, in any
\* interleaving, at most one of the two calls succeeds and the collection
\* holds exactly one document of that tuple.
C19_OneInsertWins ==
    \A a, b \in Adapters :
        (a # b /\ Added(a) /\ Added(b)) =>
            \A d \in Attempted(a) \cap Attempted(b) :
                /\ Copies(d, coll) = 1
                /\ calls[a].err # Nil \/ calls[b].err # Nil

\* C20 (as stated): the removed list a successful UpdateFilteredPolicies
\* returns on the transactional path is the list of the documents its
\* delete phase removed, whatever another writer inserted or deleted in
\* the meantime.
C20_RemovedIsDeleted ==
    \A a \in Adapters :
        (calls[a].op = "UpdateFilteredPolicies" /\ calls[a].pc = "done"
             /\ calls[a].err = Nil) =>
            \E order \in Orders(calls[a].deleted) : calls[a].ret = oldPoliciesOf(order)

\* the document d has the rule type ptype and, position by position, the
\* fields of rule, with the empty string at the positions rule does not fill
SameRule(d, ptype, rule) ==
    /\ d["ptype"] = ptype
    /\ \A i \in 1..MaxFields :
           d[indexes[i + 1]] = (IF i <= Len(rule) THEN rule[i] ELSE EmptyStr)

\* the rules given to the remove in progress
Given == IF op = "RemovePolicy" THEN <<args.rule>> ELSE args.rules

\* how many of the given rules the document d equals
GivenTimes(d) == Cardinality({i \in 1..Len(Given) : SameRule(d, args.ptype, Given[i])})

\* C21: RemovePolicy and RemovePolicies delete, for each given rule, at most
\* one document, and only one whose rule type and six fields all equal the
\* encoded rule: a stored rule that extends the given field list, or has
\* another rule type, keeps all its copies.  A RemovePolicy whose store
\* call fails returns the error and deletes nothing.
C21_RemoveMatchesAllFields ==
    /\ (\/ op = "RemovePolicy" /\ ~args.fails
        \/ op = "RemovePolicies" /\ args.failAt = 0) =>
           /\ err = Nil
           /\ BagToSet(coll) \subseteq BagToSet(pre.coll)
           /\ \A d \in BagToSet(pre.coll) :
                  Copies(d, coll) =
                      (IF Copies(d, pre.coll) > GivenTimes(d)
                       THEN Copies(d, pre.coll) - GivenTimes(d) ELSE 0)
    /\ (op = "RemovePolicy" /\ args.fails) => (err = ErrStore /\ coll = pre.coll)

\* the rule [alice] was removed and the stored rule [alice, bob], which
\* extends it, was kept
C21_Witness ==
    /\ op = "RemovePolicy"
    /\ ~args.fails
    /\ args.rule = <<alice>>
    /\ BagIn(savePolicyLine(args.ptype, <<alice, bob>>), pre.coll)
    /\ BagIn(savePolicyLine(args.ptype, <<alice>>), pre.coll)
    /\ coll = One(savePolicyLine(args.ptype, <<alice, bob>>))

\* the fields V0, V1, .. of a document up to its first empty one
RECURSIVE UpToFirstEmpty(_, _)
UpToFirstEmpty(doc, i) ==
    IF i > MaxFields \/ doc[indexes[i + 1]] = EmptyStr THEN <<>>
    ELSE <<doc[indexes[i + 1]]>> \o UpToFirstEmpty(doc, i + 1)

\* C22 (as stated): decoding a stored document appends exactly one rule to
\* the policy set, under the document's rule type: the fields V0..V5 taken
\* left to right up to the first empty one.
C22_DecodeStopsAtFirstEmpty ==
    op = "decoded" =>
        /\ ret.err = Nil
        /\ ret.model = [EmptyModel EXCEPT ![args.ptype] =
               <<UpToFirstEmpty(savePolicyLine(args.ptype, args.rule), 1)>>]

\* C23: on the non-transactional path of UpdateFilteredPolicies, when an
\* insert fails after the delete-many, the call returns the error and no
\* removed list; every document the selector matched stays deleted, the
\* new policies inserted before the failing one stay stored, every other
\* document is as before.
C23_FallbackNoRollback ==
    (op = "UpdateFilteredPolicies" /\ Code20
         /\ args.store.fallback.at \notin {"find", "delete"}) =>
        LET newLines == [i \in 1..Len(args.newPolicies) |->
                            savePolicyLine(args.ptype, args.newPolicies[i])]
            Kept(k) ==
                \A d \in BagToSet(pre.coll) \cup BagToSet(coll) \cup Range(newLines) :
                    Copies(d, coll) =
                        (IF d \in Matching(pre.coll) THEN 0 ELSE Copies(d, pre.coll))
                        + Entries(d, SubSeq(newLines, 1, k))
        IN /\ logged = <<Warning>>
           /\ args.store.fallback.at = "insert" => err # Nil
           /\ err # Nil =>
                  /\ ret = NoRet
                  /\ \E k \in 0..(Len(newLines) - 1) :
                         /\ Kept(k)
                         /\ err = ErrStore => k = args.store.fallback.done

\* without transactions the matching documents were deleted and one new
\* policy inserted when the second insert failed
C23_Witness ==
    /\ op = "UpdateFilteredPolicies"
    /\ Code20
    /\ args.store.fallback.at = "insert"
    /\ args.store.fallback.done = 1
    /\ Matching(pre.coll) # {}
    /\ err = ErrStore
    /\ ret = NoRet
    /\ BagCardinality(coll) = 1
    /\ coll # pre.coll

\* how many rules of the policy set, under the rule types in keys, encode
\* to the document d
RECURSIVE TimesIn(_, _, _)
TimesIn(d, model, keys) ==
    IF keys = {} THEN 0
    ELSE LET k == CHOOSE x \in keys : TRUE
         IN Entries(d, encodeAll(k, model[k])) + TimesIn(d, model, keys \ {k})

\* C24: a SavePolicy whose drop fails returns the error and leaves the
\* collection and its index as they were, nothing inserted; one whose drop
\* succeeds and whose bulk insert fails returns the error and leaves only
\* the documents the insert had written, the documents stored before the
\* call and the index gone.
C24_SaveNoRollback ==
    (op = "SavePolicy" /\ ~pre.filtered) =>
        /\ args.fault.at = "drop" =>
               /\ err = ErrStore
               /\ coll = pre.coll
               /\ hasIndex = pre.hasIndex
        /\ args.fault.at = "insert" =>
               /\ err = ErrStore
               /\ ~hasIndex
               /\ BagCardinality(coll) = args.fault.done
               /\ \A d \in BagToSet(coll) :
                      Copies(d, coll) <= TimesIn(d, args.model, SavedKeys)

\* the bulk insert failed after its first document: the document stored
\* before the call is gone
C24_Witness ==
    /\ op = "SavePolicy"
    /\ args.fault.at = "insert"
    /\ args.fault.done = 1
    /\ \E d \in BagToSet(pre.coll) : ~BagIn(d, coll)
    /\ pre.hasIndex
    /\ err = ErrStore
    /\ BagCardinality(coll) = 1

\* the state an operation's result leaves
After(r) == [coll |-> r.coll, hasIndex |-> r.hasIndex, filtered |-> r.filtered]

\* C26 (as stated): after a filtered load that returned success, SavePolicy
\* is rejected and leaves the collection unchanged, also when an unfiltered
\* LoadPolicy was called in between and returned an error.
C26_FailedLoadKeepsGuard ==
    (op = "LoadFilteredPolicy" /\ ~args.filter.isNil /\ err = Nil) =>
        \A model \in TinyModels :
            LET direct == SavePolicy(S, model, KeyOrderP, KeyOrderG, NoFault)
                failed == LoadPolicy(S, EmptyModel, <<>>, TRUE)
                later == SavePolicy(After(failed), model, KeyOrderP, KeyOrderG, NoFault)
            IN /\ direct.err = ErrFiltered /\ direct.coll = coll
               /\ failed.err # Nil
               /\ later.err = ErrFiltered /\ later.coll = coll

\* C29 (as stated): SavePolicy on an unfiltered adapter, with a policy set
\* that has no rule under "p" and none under "g", returns success and
\* leaves the collection empty.
C29_SaveEmptyPolicy ==
    (op = "SavePolicy" /\ ~pre.filtered /\ args.fault = NoFault
         /\ \A k \in SavedKeys : args.model[k] = <<>>) =>
        /\ err = Nil
        /\ coll = EmptyBag

\* what UpdatePolicy leaves, called for the first k pairs (old rule i, new
\* rule i) of the batch in progress one after the other, up to the first
\* one that returns an error
RECURSIVE PairsApplied(_)
PairsApplied(k) ==
    IF k = 0 THEN Unchanged(pre, Nil)
    ELSE LET before == PairsApplied(k - 1)
         IN IF before.err # Nil THEN before
            ELSE UpdatePolicy(After(before), args.ptype, args.oldRules[k], args.newRules[k])

\* C28: UpdatePolicies pairs old rule i with new rule i, in the order of
\* the old rules.  With fewer new rules than old ones, the replacements of
\* the pairs that exist have been applied when the call aborts with an
\* out-of-range failure, and nothing is undone; with more new rules than
\* old ones the surplus new rules are not written.
C28_UpdatePairsByIndex ==
    (op = "UpdatePolicies" /\ args.failAt = 0) =>
        LET nOld == Len(args.oldRules)
            nNew == Len(args.newRules)
            paired == PairsApplied(IF nNew < nOld THEN nNew ELSE nOld)
        IN /\ coll = paired.coll
           /\ err = (IF paired.err # Nil THEN paired.err
                     ELSE IF nNew < nOld THEN Panic ELSE Nil)
           /\ \A i \in (nOld + 1)..nNew :
                  LET d == savePolicyLine(args.ptype, args.newRules[i])
                  IN Copies(d, coll) <=
                         Copies(d, pre.coll)
                         + Entries(d, encodeAll(args.ptype, SubSeq(args.newRules, 1, nOld)))

\* two old rules and one new rule: the first replacement was applied and
\* the call then failed out of range
C28_Witness ==
    /\ op = "UpdatePolicies"
    /\ args.failAt = 0
    /\ Len(args.oldRules) = 2
    /\ Len(args.newRules) = 1
    /\ err = Panic
    /\ coll # pre.coll

\* the last execution of the callback of instance a read exactly the
\* documents its delete-many then removed
LastReadIsDeleted(a) ==
    LET n == BagCardinality(calls[a].deleted)
        m == Len(calls[a].oldLines)
    IN /\ n <= m
       /\ SubSeq(calls[a].oldLines, m - n + 1, m) \in Orders(calls[a].deleted)

\* C27 (as stated): the removed list of a successful UpdateFilteredPolicies
\* on the transactional path has one entry per deleted document, also when
\* the callback ran more than once; nothing of an earlier execution is left
\* in it.
C27_NoAccumulation ==
    \A a \in Adapters :
        (calls[a].op = "UpdateFilteredPolicies" /\ calls[a].pc = "done"
             /\ calls[a].err = Nil /\ LastReadIsDeleted(a)) =>
            /\ Len(calls[a].ret) = BagCardinality(calls[a].deleted)
            /\ \A d \in BagToSet(calls[a].deleted) :
                   Entries(toStringPolicy(d), calls[a].ret) = Copies(d, calls[a].deleted)

\* C25 (as stated): when an operation has returned, with success or with
\* an error, no cursor it opened is still open.
C25_NothingLeftOpen ==
    \A a \in Adapters : calls[a].pc \in {"done", "idle"} => calls[a].open = {}

\* C30: an instance takes a step of close() or is finalized: its client is
\* disconnected afterwards, the caller's client of NewAdapterByDB included;
\* the step returns no error and, on a client that was disconnected already,
\* changes nothing in the set of connected clients; it never touches the
\* collection.  An instance about to call the store on a disconnected client
\* (one another instance of the same client closed) takes no step other than
\* returning the error, with the collection unchanged.
C30_CloseDisconnectsSharedClient ==
    [][\A a \in Adapters :
          /\ calls[a].pc = "disconnect" /\ calls'[a] # calls[a]
                => /\ ClientOf(a) \notin connected'
                   /\ calls'[a].pc = "done" /\ calls'[a].err = Nil
                   /\ ~Connected(a) => connected' = connected
                   /\ coll' = coll
          /\ calls[a].by # "none" /\ calls'[a].by = "none"
                => /\ ClientOf(a) \notin connected'
                   /\ ~Connected(a) => connected' = connected
                   /\ coll' = coll
          /\ calls[a].pc \in StorePcs /\ ~Connected(a) /\ calls'[a] # calls[a]
                => /\ calls'[a].pc = "done"
                   /\ calls'[a].err = ErrClientDisconnected
                   /\ coll' = coll /\ connected' = connected]_vars

\* an instance built on the caller's client has closed, and the AddPolicy of
\* another instance built on the same client has failed without a write
C30_Witness ==
    \E a, b \in Adapters :
        /\ a # b
        /\ calls[a].by = "NewAdapterByDB" /\ calls[b].by = "NewAdapterByDB"
        /\ calls[a].op = "close" /\ calls[a].pc = "done"
        /\ Shared \notin connected
        /\ calls[b].op = "AddPolicy" /\ calls[b].pc = "done"
        /\ calls[b].err = ErrClientDisconnected
        /\ coll = EmptyBag

====
